---- MODULE Spec2Model ----
(***************************************************************************)
(* Connect Four (6 rows x 5 columns), human against a minimax AI.          *)
(* Model of src/AI_connect_4.py (alpha-beta, optional move ordering,       *)
(* iterative deepening against a wall-clock budget) and of                 *)
(* src/FirstVersion_connect4.py (plain minimax).                           *)
(***************************************************************************)
EXTENDS Integers, Sequences, FiniteSets, TLC

\* ---------------------------------------------------------------- constants
ROWS == 6
COLS == 5
HUMAN_PIECE == 1
AI_PIECE == 2
EMPTY == 0

\* math.inf: larger than any value evaluate_board can return
INF == 1000000

\* Python's None
None == -1

\* The result of random.choice(valid_moves) before it is looked at
RANDOM == -2

\* No deadline: a clock whose reads all see elapsed < time_limit
Unlimited == 0 - 1

Pieces == {HUMAN_PIECE, AI_PIECE}
RowIdx == 0 .. (ROWS - 1)
ColIdx == 0 .. (COLS - 1)

\* ------------------------------------------------------------ list indexing
\* Python list indexing a[i] on a list of length n: indices -n .. n-1 are
\* accepted (a negative i counts from the end), anything else raises IndexError.
PyIndexOk(n, i) == (i >= 0 - n) /\ (i < n)

PyIndex(n, i) == IF i < 0 THEN i + n ELSE i

\* range(a, b) as a sequence a, a+1, ..., b-1
Range(a, b) == [k \in 1 .. (IF b > a THEN b - a ELSE 0) |-> a + k - 1]

\* ---------------------------------------------------------------- the board
create_board == [row \in RowIdx |-> [col \in ColIdx |-> EMPTY]]

\* is_valid_move: board[0][col] == EMPTY.  The outcome is "True", "False", or
\* "IndexError" when col is outside what list indexing accepts.
is_valid_move(board, col) ==
    IF ~PyIndexOk(COLS, col) THEN "IndexError"
    ELSE IF board[0][PyIndex(COLS, col)] = EMPTY THEN "True" ELSE "False"

\* The loop of get_valid_moves inserting each valid column at the front of the
\* list (valid_moves.insert(0, col)) instead of appending it
RECURSIVE valid_columns_prepended(_, _, _)
valid_columns_prepended(board, col, acc) ==
    IF col >= COLS THEN acc
    ELSE valid_columns_prepended(board, col + 1,
            IF is_valid_move(board, col) = "True" THEN << col >> \o acc ELSE acc)

\* get_valid_moves: for col in range(COLS): if is_valid_move: append
RECURSIVE valid_columns_from(_, _, _)
valid_columns_from(board, col, acc) ==
    IF col >= COLS THEN acc
    ELSE valid_columns_from(board, col + 1,
            IF is_valid_move(board, col) = "True" THEN Append(acc, col) ELSE acc)

get_valid_moves(board) == valid_columns_from(board, 0, <<>>)

\* drop_row scanning from the top row down (range(ROWS) instead of
\* range(ROWS-1, -1, -1))
RECURSIVE drop_row_top(_, _, _)
drop_row_top(board, col, row) ==
    IF row < 0 THEN None
    ELSE IF board[ROWS - 1 - row][col] = EMPTY THEN ROWS - 1 - row
    ELSE drop_row_top(board, col, row - 1)

\* The row make_move writes: the first row, scanning ROWS-1 down to 0, whose
\* cell in col is EMPTY; None when the loop ends without a break.
RECURSIVE drop_row(_, _, _)
drop_row(board, col, row) ==
    IF row < 0 THEN None
    ELSE IF board[row][col] = EMPTY THEN row
    ELSE drop_row(board, col, row - 1)

\* make_move without the deepcopy: new_board is the caller's list
make_move_no_copy(board, col, piece) ==
    IF ~PyIndexOk(COLS, col)
    THEN [arg |-> board, ret |-> board, exc |-> "IndexError"]
    ELSE LET c == PyIndex(COLS, col)
             row == drop_row(board, c, ROWS - 1)
             new_board == IF row = None THEN board
                          ELSE [board EXCEPT ![row][c] = piece]
         IN  [arg |-> new_board, ret |-> new_board, exc |-> "none"]

\* make_move: deep-copies the board, writes the piece into the copy, returns
\* the copy.  arg is the caller's list after the call, ret the returned list,
\* exc the exception raised ("none": the call returned).
make_move(board, col, piece) ==
    IF ~PyIndexOk(COLS, col)
    THEN [arg |-> board, ret |-> board, exc |-> "IndexError"]
    ELSE LET c == PyIndex(COLS, col)
             row == drop_row(board, c, ROWS - 1)
             new_board == IF row = None THEN board
                          ELSE [board EXCEPT ![row][c] = piece]
         IN  [arg |-> board, ret |-> new_board, exc |-> "none"]

\* ------------------------------------------------------------ win detection
\* check_win whose horizontal scan stops one column early (range(COLS - 4))
check_win_short(board, piece) ==
    \/ \E row \in 0 .. (ROWS - 1), col \in 0 .. (COLS - 4 - 1) :
          /\ board[row][col] = piece
          /\ board[row][col + 1] = piece
          /\ board[row][col + 2] = piece
          /\ board[row][col + 3] = piece
    \/ \E col \in 0 .. (COLS - 1), row \in 0 .. (ROWS - 3 - 1) :
          /\ board[row][col] = piece
          /\ board[row + 1][col] = piece
          /\ board[row + 2][col] = piece
          /\ board[row + 3][col] = piece
    \/ \E row \in 0 .. (ROWS - 3 - 1), col \in 0 .. (COLS - 3 - 1) :
          /\ board[row][col] = piece
          /\ board[row + 1][col + 1] = piece
          /\ board[row + 2][col + 2] = piece
          /\ board[row + 3][col + 3] = piece
    \/ \E row \in 3 .. (ROWS - 1), col \in 0 .. (COLS - 3 - 1) :
          /\ board[row][col] = piece
          /\ board[row - 1][col + 1] = piece
          /\ board[row - 2][col + 2] = piece
          /\ board[row - 3][col + 3] = piece

check_win(board, piece) ==
    \/ \E row \in 0 .. (ROWS - 1), col \in 0 .. (COLS - 3 - 1) :
          /\ board[row][col] = piece
          /\ board[row][col + 1] = piece
          /\ board[row][col + 2] = piece
          /\ board[row][col + 3] = piece
    \/ \E col \in 0 .. (COLS - 1), row \in 0 .. (ROWS - 3 - 1) :
          /\ board[row][col] = piece
          /\ board[row + 1][col] = piece
          /\ board[row + 2][col] = piece
          /\ board[row + 3][col] = piece
    \/ \E row \in 0 .. (ROWS - 3 - 1), col \in 0 .. (COLS - 3 - 1) :
          /\ board[row][col] = piece
          /\ board[row + 1][col + 1] = piece
          /\ board[row + 2][col + 2] = piece
          /\ board[row + 3][col + 3] = piece
    \/ \E row \in 3 .. (ROWS - 1), col \in 0 .. (COLS - 3 - 1) :
          /\ board[row][col] = piece
          /\ board[row - 1][col + 1] = piece
          /\ board[row - 2][col + 2] = piece
          /\ board[row - 3][col + 3] = piece

\* check_tie that also asks for no winner
check_tie_no_win(board) ==
    /\ \A col \in 0 .. (COLS - 1) : board[0][col] # EMPTY
    /\ ~check_win(board, HUMAN_PIECE)
    /\ ~check_win(board, AI_PIECE)

check_tie(board) == \A col \in 0 .. (COLS - 1) : board[0][col] # EMPTY

is_terminal_node(board) ==
    \/ check_win(board, HUMAN_PIECE)
    \/ check_win(board, AI_PIECE)
    \/ check_tie(board)

\* ---------------------------------------------------------- static evaluator
\* window.count(x) on a list of four cells
Count(window, x) ==
    (IF window[1] = x THEN 1 ELSE 0) + (IF window[2] = x THEN 1 ELSE 0)
    + (IF window[3] = x THEN 1 ELSE 0) + (IF window[4] = x THEN 1 ELSE 0)

evaluate_window(window, piece) ==
    LET opponent_piece == IF piece = AI_PIECE THEN HUMAN_PIECE ELSE AI_PIECE
        our_pieces == Count(window, piece)
        opponent_pieces == Count(window, opponent_piece)
        empty_spaces == Count(window, EMPTY)
        gain == IF our_pieces = 4 THEN 100
                ELSE IF our_pieces = 3 /\ empty_spaces = 1 THEN 5
                ELSE IF our_pieces = 2 /\ empty_spaces = 2 THEN 2
                ELSE 0
        loss == IF opponent_pieces = 3 /\ empty_spaces = 1 THEN 4 ELSE 0
    IN  gain - loss

\* The windows evaluate_board scores, in the order of its four loops; each is
\* the start cell (row, col) and the step (dr, dc) to the next cell.
WindowsIn(rows, cols, dr, dc) ==
    [k \in 1 .. (Len(rows) * Len(cols)) |->
        << rows[((k - 1) \div Len(cols)) + 1], cols[((k - 1) % Len(cols)) + 1],
           dr, dc >>]

board_windows ==
    WindowsIn(Range(0, ROWS), Range(0, COLS - 3), 0, 1)
    \o WindowsIn(Range(0, ROWS - 3), Range(0, COLS), 1, 0)
    \o WindowsIn(Range(0, ROWS - 3), Range(0, COLS - 3), 1, 1)
    \o WindowsIn(Range(3, ROWS), Range(0, COLS - 3), -1, 1)

RECURSIVE sum_windows(_, _, _, _)
sum_windows(board, piece, windows, k) ==
    IF k > Len(windows) THEN 0
    ELSE LET w == windows[k]
         IN  evaluate_window(<< board[w[1]][w[2]],
                                board[w[1] + w[3]][w[2] + w[4]],
                                board[w[1] + 2 * w[3]][w[2] + 2 * w[4]],
                                board[w[1] + 3 * w[3]][w[2] + 3 * w[4]] >>, piece)
             + sum_windows(board, piece, windows, k + 1)

evaluate_board(board, piece) ==
    LET center_col == COLS \div 2
        center_count == Cardinality({row \in RowIdx : board[row][center_col] = piece})
    IN  center_count * 3 + sum_windows(board, piece, board_windows, 1)

\* ------------------------------------------------------------------ search
\* The wall clock, seen through the comparisons the code makes with it.  The
\* reads of time.time() are numbered 1, 2, ...; time does not run backwards, so
\* the first lt reads see elapsed < time_limit, the next eq reads see
\* elapsed == time_limit, and every later read sees elapsed > time_limit.
\* lt = Unlimited is a clock that never reaches the limit.
\* A run record g carries the clock (reads so far, lt, eq), the globals
\* nodes_visited and max_depth_reached, and late, the number of minimax calls
\* that took the timeout branch so far; exc is the exception that ended the
\* run ("none": it is still running or it returned).
NewRun(lt, eq) ==
    [reads |-> 0, lt |-> lt, eq |-> eq,
     nodes_visited |-> 0, max_depth_reached |-> 0, late |-> 0, exc |-> "none"]

Tick(g) == [g EXCEPT !.reads = @ + 1]

\* time.time() - start_time > time_limit, at the read that Tick(g) counted
TimeOver(g) == g.lt # Unlimited /\ g.reads > g.lt + g.eq

\* time.time() - start_time < time_limit, at the read that Tick(g) counted
TimeLeft(g) == g.lt = Unlimited \/ g.reads <= g.lt

Max(a, b) == IF a >= b THEN a ELSE b

Min(a, b) == IF a <= b THEN a ELSE b

\* The default move left unset (best_move = None) instead of drawn from the
\* valid moves
no_default_move(valid_moves) == None

\* random.choice(valid_moves): any element of a non-empty list (an empty list
\* raises IndexError, see minimax).  The draw is kept symbolic (RANDOM) until a
\* caller looks at the move: the moves it stands for are those of valid_moves.
random_choice(valid_moves) == RANDOM

\* The columns a returned move stands for
MovesOf(move, board) ==
    IF move = RANDOM THEN {c \in ColIdx : is_valid_move(board, c) = "True"}
    ELSE {move}

\* sorted(move_scores, key=lambda x: x[0], reverse=...): a stable sort, so
\* moves with equal scores keep their ascending column order either way.
RECURSIVE insert_sorted(_, _, _, _)
insert_sorted(sorted, x, reverse, k) ==
    IF k > Len(sorted) THEN Append(sorted, x)
    ELSE IF (IF reverse THEN sorted[k][1] < x[1] ELSE sorted[k][1] > x[1])
         THEN SubSeq(sorted, 1, k - 1) \o << x >> \o SubSeq(sorted, k, Len(sorted))
         ELSE insert_sorted(sorted, x, reverse, k + 1)

RECURSIVE stable_sort(_, _, _, _)
stable_sort(move_scores, reverse, k, acc) ==
    IF k > Len(move_scores) THEN acc
    ELSE stable_sort(move_scores, reverse, k + 1,
                     insert_sorted(acc, move_scores[k], reverse, 1))

\* Version 2's move ordering (lines 282-291)
order_moves(board, valid_moves, maximizingPlayer) ==
    LET piece == IF maximizingPlayer THEN AI_PIECE ELSE HUMAN_PIECE
        move_scores == [k \in 1 .. Len(valid_moves) |->
            << evaluate_board(make_move(board, valid_moves[k], piece).ret, AI_PIECE),
               valid_moves[k] >>]
        sorted == stable_sort(move_scores, maximizingPlayer, 1, <<>>)
    IN  [k \in 1 .. Len(sorted) |-> sorted[k][2]]

\* The value minimax returns at depth 0 or on a terminal board
leaf_score(board) ==
    IF check_win(board, AI_PIECE) THEN INF
    ELSE IF check_win(board, HUMAN_PIECE) THEN 0 - INF
    ELSE evaluate_board(board, AI_PIECE)

RECURSIVE minimax(_, _, _, _, _, _, _)
RECURSIVE max_loop(_, _, _, _, _, _, _, _, _, _)
RECURSIVE min_loop(_, _, _, _, _, _, _, _, _, _)

\* max_loop that tests the cutoff on the child's score before it records it:
\* on a cutoff it returns the value and the move it had before
max_loop_stale(board, depth, alpha, beta, valid_moves, k, value, best_move, g, version) ==
    IF k > Len(valid_moves) THEN [score |-> value, move |-> best_move, g |-> g]
    ELSE
      LET move == valid_moves[k]
          child_board == make_move(board, move, AI_PIECE).ret
          r == minimax(child_board, depth - 1, alpha, beta, FALSE, g, version)
          better == r.score > value
          value2 == IF better THEN r.score ELSE value
          best2 == IF better THEN move ELSE best_move
          alpha2 == Max(alpha, value2)
      IN  IF r.g.exc # "none" THEN r
          ELSE IF alpha2 >= beta
          THEN [score |-> value, move |-> best_move, g |-> r.g]
          ELSE max_loop(board, depth, alpha2, beta, valid_moves, k + 1,
                        value2, best2, r.g, version)

\* for move in valid_moves (maximizing ply), from the k-th move on
max_loop(board, depth, alpha, beta, valid_moves, k, value, best_move, g, version) ==
    IF k > Len(valid_moves) THEN [score |-> value, move |-> best_move, g |-> g]
    ELSE
      LET move == valid_moves[k]
          child_board == make_move(board, move, AI_PIECE).ret
          r == minimax(child_board, depth - 1, alpha, beta, FALSE, g, version)
          better == r.score > value
          value2 == IF better THEN r.score ELSE value
          best2 == IF better THEN move ELSE best_move
          alpha2 == Max(alpha, value2)
      IN  IF r.g.exc # "none" THEN r
          ELSE IF alpha2 >= beta
          THEN [score |-> value2, move |-> best2, g |-> r.g]
          ELSE max_loop(board, depth, alpha2, beta, valid_moves, k + 1,
                        value2, best2, r.g, version)

\* for move in valid_moves (minimizing ply), from the k-th move on
min_loop(board, depth, alpha, beta, valid_moves, k, value, best_move, g, version) ==
    IF k > Len(valid_moves) THEN [score |-> value, move |-> best_move, g |-> g]
    ELSE
      LET move == valid_moves[k]
          child_board == make_move(board, move, HUMAN_PIECE).ret
          r == minimax(child_board, depth - 1, alpha, beta, TRUE, g, version)
          better == r.score < value
          value2 == IF better THEN r.score ELSE value
          best2 == IF better THEN move ELSE best_move
          beta2 == Min(beta, value2)
      IN  IF r.g.exc # "none" THEN r
          ELSE IF alpha >= beta2
          THEN [score |-> value2, move |-> best2, g |-> r.g]
          ELSE min_loop(board, depth, alpha, beta2, valid_moves, k + 1,
                        value2, best2, r.g, version)

\* minimax of AI_connect_4.py: returns (score, best_move) and the run after it
minimax(board, depth, alpha, beta, maximizingPlayer, g, version) ==
    LET g1 == Tick([g EXCEPT !.nodes_visited = @ + 1,
                             !.max_depth_reached = Max(@, depth)])
    IN  IF TimeOver(g1)
        THEN [score |-> evaluate_board(board, AI_PIECE), move |-> None,
              g |-> [g1 EXCEPT !.late = @ + 1]]
        ELSE IF depth = 0 \/ is_terminal_node(board)
        THEN [score |-> leaf_score(board), move |-> None, g |-> g1]
        ELSE
          LET moves == get_valid_moves(board)
              valid_moves == IF version = 2
                             THEN order_moves(board, moves, maximizingPlayer)
                             ELSE moves
              best_move == random_choice(valid_moves)
          IN  IF Len(valid_moves) = 0
              THEN [score |-> 0, move |-> None,
                    g |-> [g1 EXCEPT !.exc = "IndexError"]]
              ELSE IF maximizingPlayer
              THEN max_loop(board, depth, alpha, beta, valid_moves, 1,
                            0 - INF, best_move, g1, version)
              ELSE min_loop(board, depth, alpha, beta, valid_moves, 1,
                            INF, best_move, g1, version)

\* --------------------------------------- FirstVersion_connect4.py's minimax
RECURSIVE fv_minimax(_, _, _, _)
RECURSIVE fv_max_loop(_, _, _, _, _, _, _)
RECURSIVE fv_min_loop(_, _, _, _, _, _, _)

fv_max_loop(board, depth, valid_moves, k, value, best_move, g) ==
    IF k > Len(valid_moves) THEN [score |-> value, move |-> best_move, g |-> g]
    ELSE
      LET move == valid_moves[k]
          child_board == make_move(board, move, AI_PIECE).ret
          r == fv_minimax(child_board, depth - 1, FALSE, g)
          better == r.score > value
      IN  IF r.g.exc # "none" THEN r
          ELSE
          fv_max_loop(board, depth, valid_moves, k + 1,
                      IF better THEN r.score ELSE value,
                      IF better THEN move ELSE best_move, r.g)

fv_min_loop(board, depth, valid_moves, k, value, best_move, g) ==
    IF k > Len(valid_moves) THEN [score |-> value, move |-> best_move, g |-> g]
    ELSE
      LET move == valid_moves[k]
          child_board == make_move(board, move, HUMAN_PIECE).ret
          r == fv_minimax(child_board, depth - 1, TRUE, g)
          better == r.score < value
      IN  IF r.g.exc # "none" THEN r
          ELSE
          fv_min_loop(board, depth, valid_moves, k + 1,
                      IF better THEN r.score ELSE value,
                      IF better THEN move ELSE best_move, r.g)

fv_minimax(board, depth, maximizingPlayer, g) ==
    LET g1 == Tick([g EXCEPT !.nodes_visited = @ + 1,
                             !.max_depth_reached = Max(@, depth)])
    IN  IF TimeOver(g1)
        THEN [score |-> evaluate_board(board, AI_PIECE), move |-> None,
              g |-> [g1 EXCEPT !.late = @ + 1]]
        ELSE IF depth = 0 \/ is_terminal_node(board)
        THEN [score |-> leaf_score(board), move |-> None, g |-> g1]
        ELSE
          LET valid_moves == get_valid_moves(board)
              best_move == random_choice(valid_moves)
          IN  IF Len(valid_moves) = 0
              THEN [score |-> 0, move |-> None,
                    g |-> [g1 EXCEPT !.exc = "IndexError"]]
              ELSE IF maximizingPlayer
              THEN fv_max_loop(board, depth, valid_moves, 1, 0 - INF, best_move, g1)
              ELSE fv_min_loop(board, depth, valid_moves, 1, INF, best_move, g1)

\* ------------------------------------------------------------- get_ai_move
\* The loop of get_ai_move (lines 346-357) from the pass at the given depth on:
\* the check of the clock, the search, the check that keeps its move
RECURSIVE ai_loop(_, _, _, _, _)
ai_loop(board, version, depth, best_move, g) ==
    LET g1 == Tick(g)
    IN  IF TimeOver(g1) THEN [move |-> best_move, g |-> g1]
        ELSE LET r == minimax(board, depth, 0 - INF, INF, TRUE, g1, version)
                 g2 == Tick(r.g)
             IN  IF r.g.exc # "none" THEN [move |-> best_move, g |-> r.g]
                 ELSE ai_loop(board, version, depth + 1,
                              IF TimeLeft(g2) THEN r.move ELSE best_move, g2)

\* get_ai_move of AI_connect_4.py on a clock g that has not been read yet:
\* the move returned, and the run with the counters returned
get_ai_move(board, version, g) == ai_loop(board, version, 1, None, g)

\* get_ai_move of FirstVersion_connect4.py (lines 283-309)
RECURSIVE fv_ai_loop(_, _, _, _)
fv_ai_loop(board, depth, best_move, g) ==
    LET g1 == Tick(g)
    IN  IF TimeOver(g1) THEN [move |-> best_move, g |-> g1]
        ELSE LET r == fv_minimax(board, depth, TRUE, g1)
                 g2 == Tick(r.g)
             IN  IF r.g.exc # "none" THEN [move |-> best_move, g |-> r.g]
                 ELSE fv_ai_loop(board, depth + 1,
                                 IF TimeLeft(g2) THEN r.move ELSE best_move, g2)

fv_get_ai_move(board, g) == fv_ai_loop(board, 1, None, g)

\* ---------------------------------------------------------------- openings
\* Positions of the game, each given by the columns played from the empty
\* board, the human first and the sides alternating as in main, which plays a
\* column only after is_valid_move accepted it and only while the game is on.
RECURSIVE play_out(_, _, _)
play_out(board, cols, k) ==
    IF k > Len(cols) \/ is_terminal_node(board)
       \/ is_valid_move(board, cols[k]) # "True"
    THEN board
    ELSE play_out(make_move(board, cols[k],
                            IF k % 2 = 1 THEN HUMAN_PIECE ELSE AI_PIECE).ret,
                  cols, k + 1)

\* A middle game in which either side is one move from a line in each of the
\* four directions, and a board with two empty cells left, both in the top row.
MiddleGame == << 4, 3, 0, 2, 3, 3, 0, 1, 3, 2, 1, 1, 0, 3, 4, 4 >>

EndGame == << 3, 1, 0, 1, 1, 1, 3, 3, 0, 3, 1, 3, 4, 2, 1, 4, 4, 4, 4, 0,
              2, 4, 2, 0, 0, 0, 2, 2 >>

BoardOpenings == { << >>, MiddleGame, EndGame }

SearchOpenings == { << >>, << 0, 0, 1, 1 >>, MiddleGame, EndGame }

\* The AI to move with no move that stops the human's line of four on the
\* bottom row, and the human to move with no move that stops the AI's line of
\* four on the row above it
LostGame == << 1, 1, 2, 2, 3 >>

WonGame == << 0, 1, 2, 1, 3, 2, 4, 3 >>

CallOpenings == SearchOpenings \cup { LostGame, WonGame }

\* -------------------------------------------------------------------- bounds
\* Calls of make_move the board harness makes from an opening
MaxMoves == 4

\* Moves played from an opening before a search, and the depths searched
MaxPlies == 3

MaxDepth == 2

\* Pieces on the board of a game of main, and the clock of get_ai_move: at most
\* MaxReads reads see elapsed < time_limit, at most MaxEq see it equal
MaxPieces == 2

MaxReads == 30

MaxEq == 1

\* Moves played from an opening before one call of minimax or get_ai_move, and
\* the clock of that call: at most MaxTimed reads (of a minimax call) or
\* MaxClock reads (of a get_ai_move call) see elapsed < time_limit
MaxCallPlies == 2

MaxTimed == 3

MaxClock == 8

\* ----------------------------------------------------------------- the state
VARIABLES
    board,      \* the board of main (or of a harness)
    turn,       \* main: 0 = human's turn, 1 = AI's turn
    game_over,  \* main: the loop has ended
    version,    \* main: 1 = basic, 2 = move ordering
    pc,         \* where the program is: "main", or inside get_ai_move
    depth,      \* get_ai_move: the depth of the next iteration
    best_move,  \* get_ai_move: the move kept so far
    run,        \* get_ai_move: the clock and the global counters
    history,    \* get_ai_move: what each iteration did, in order
    steps,      \* make_move calls made by a harness
    call        \* the last call a harness made, with what it returned; in a
                \* whole game, the columns the human is going to enter

vars == << board, turn, game_over, version, pc, depth, best_move, run, history,
           steps, call >>

game_vars == << turn, game_over, version, pc, depth, best_move, run, history >>

NoCall == [op |-> "none"]

PieceCount(b) == Cardinality({cell \in RowIdx \X ColIdx : b[cell[1]][cell[2]] # EMPTY})

\* The program before main's loop starts (lines 408-410), searching nothing
InitGame ==
    /\ turn = 0
    /\ game_over = FALSE
    /\ pc = "main"
    /\ depth = 0
    /\ best_move = None
    /\ run = NewRun(0, 0)
    /\ history = << >>

\* ---------------------------------------- board operations, called one by one
InitBoard ==
    /\ board \in {play_out(create_board, o, 1) : o \in BoardOpenings}
    /\ steps = 0
    /\ call = NoCall
    /\ version = 1
    /\ InitGame

\* board = make_move(board, col, piece), on any column, full or not
CallMakeMove(col, piece) ==
    /\ steps < MaxMoves
    /\ LET r == make_move(board, col, piece)
       IN  /\ board' = r.ret
           /\ call' = [op |-> "make_move", col |-> col, piece |-> piece,
                       before |-> board, arg |-> r.arg, ret |-> r.ret,
                       exc |-> r.exc]
    /\ steps' = steps + 1
    /\ UNCHANGED game_vars

\* is_valid_move(board, col), on any integer near the column range
CallIsValidMove(col) ==
    /\ call' = [op |-> "is_valid_move", col |-> col,
                ret |-> is_valid_move(board, col)]
    /\ UNCHANGED << board, steps >>
    /\ UNCHANGED game_vars

CallGetValidMoves ==
    /\ call' = [op |-> "get_valid_moves", ret |-> get_valid_moves(board)]
    /\ UNCHANGED << board, steps >>
    /\ UNCHANGED game_vars

CallCheckWin(piece) ==
    /\ call' = [op |-> "check_win", piece |-> piece, ret |-> check_win(board, piece)]
    /\ UNCHANGED << board, steps >>
    /\ UNCHANGED game_vars

CallCheckTie ==
    /\ call' = [op |-> "check_tie", ret |-> check_tie(board)]
    /\ UNCHANGED << board, steps >>
    /\ UNCHANGED game_vars

NextBoard ==
    \/ \E col \in ColIdx, piece \in Pieces : CallMakeMove(col, piece)
    \/ \E col \in (0 - COLS - 1) .. COLS : CallIsValidMove(col)
    \/ CallGetValidMoves
    \/ \E piece \in Pieces : CallCheckWin(piece)
    \/ CallCheckTie

SpecBoard == InitBoard /\ [][NextBoard]_vars

\* ------------------------------------------- searches of positions of play
InitSearch ==
    /\ board \in {play_out(create_board, o, 1) : o \in SearchOpenings}
    /\ steps = 0
    /\ call = NoCall
    /\ version = 1
    /\ InitGame

\* A move of the game: the side to move (the human on an even number of
\* pieces) plays a column is_valid_move accepts, while the game is on.
Play(col) ==
    /\ steps < MaxPlies
    /\ ~is_terminal_node(board)
    /\ is_valid_move(board, col) = "True"
    /\ board' = make_move(board, col,
                          IF PieceCount(board) % 2 = 0 THEN HUMAN_PIECE
                          ELSE AI_PIECE).ret
    /\ steps' = steps + 1
    /\ call' = NoCall
    /\ UNCHANGED game_vars

\* What one search returned: (score, best_move), the nodes it visited, and the
\* exception it ended with
Outcome(r) ==
    [score |-> r.score, move |-> r.move, nodes |-> r.g.nodes_visited,
     exc |-> r.g.exc]

\* With the AI to move and no deadline: minimax(board, d, -inf, inf, True, ...)
\* of AI_connect_4.py in both versions, and minimax(board, d, True, ...) of
\* FirstVersion_connect4.py, on the same board at the same depth.
Search(d) ==
    /\ PieceCount(board) % 2 = 1
    /\ call.op # "search"
    /\ call' = [op |-> "search", depth |-> d,
                v1 |-> Outcome(minimax(board, d, 0 - INF, INF, TRUE,
                                       NewRun(Unlimited, 0), 1)),
                v2 |-> Outcome(minimax(board, d, 0 - INF, INF, TRUE,
                                       NewRun(Unlimited, 0), 2)),
                fv |-> Outcome(fv_minimax(board, d, TRUE, NewRun(Unlimited, 0)))]
    /\ UNCHANGED << board, steps >>
    /\ UNCHANGED game_vars

NextSearch ==
    \/ \E col \in ColIdx : Play(col)
    \/ \E d \in 0 .. MaxDepth : Search(d)

SpecSearch == InitSearch /\ [][NextSearch]_vars

\* ------------------------------ single calls of minimax and of get_ai_move
\* The windows (alpha, beta) of a call: the root's, and those of a call below a
\* node that has found a move worth 0
Windows == { << 0 - INF, INF >>, << 0, INF >>, << 0 - INF, 0 >> }

Clocks == {Unlimited} \cup (0 .. MaxTimed)

\* The side to move on a board of play: the AI after an odd number of pieces
ai_to_move(b) == PieceCount(b) % 2 = 1

InitCalls ==
    /\ board \in {play_out(create_board, o, 1) : o \in CallOpenings}
    /\ steps = 0
    /\ call = NoCall
    /\ version = 1
    /\ InitGame

PlayBeforeCall(col) ==
    /\ steps < MaxCallPlies
    /\ Play(col)

\* One call of minimax of AI_connect_4.py as the search makes it: on a board of
\* play, maximizing when the AI is to move, at depth d with window w, on a clock
\* not read before that passes the limit after lt reads
CallMinimax(d, w, lt, v) ==
    /\ call.op = "none"
    /\ \E r \in {minimax(board, d, w[1], w[2], ai_to_move(board),
                          NewRun(lt, 0), v)} :
          call' = [op |-> "minimax", file |-> "AI_connect_4", version |-> v,
                   depth |-> d, alpha |-> w[1], beta |-> w[2],
                   maximizing |-> ai_to_move(board),
                   lt |-> lt, out |-> Outcome(r), late |-> r.g.late]
    /\ UNCHANGED << board, steps >>
    /\ UNCHANGED game_vars

\* One call of minimax of FirstVersion_connect4.py
CallFirstMinimax(d, lt) ==
    /\ call.op = "none"
    /\ \E r \in {fv_minimax(board, d, ai_to_move(board), NewRun(lt, 0))} :
          call' = [op |-> "minimax", file |-> "FirstVersion_connect4",
                   version |-> 0, depth |-> d, maximizing |-> ai_to_move(board),
                   lt |-> lt, out |-> Outcome(r), late |-> r.g.late]
    /\ UNCHANGED << board, steps >>
    /\ UNCHANGED game_vars

\* One call of get_ai_move of either file, with the AI to move
CallGetAIMove(lt, eq, v) ==
    /\ call.op = "none"
    /\ ai_to_move(board)
    /\ \E r \in {IF v = 0 THEN fv_get_ai_move(board, NewRun(lt, eq))
                  ELSE get_ai_move(board, v, NewRun(lt, eq))} :
          call' = [op |-> "get_ai_move", version |-> v, lt |-> lt, eq |-> eq,
                   move |-> r.move, max_depth_reached |-> r.g.max_depth_reached,
                   late |-> r.g.late, exc |-> r.g.exc]
    /\ UNCHANGED << board, steps >>
    /\ UNCHANGED game_vars

NextCalls ==
    \/ \E col \in ColIdx : PlayBeforeCall(col)
    \/ \E d \in 1 .. MaxDepth, w \in Windows, lt \in Clocks, v \in {1, 2} :
          CallMinimax(d, w, lt, v)
    \/ \E d \in 1 .. MaxDepth, lt \in Clocks : CallFirstMinimax(d, lt)
    \/ \E lt \in 0 .. MaxClock, eq \in 0 .. MaxEq, v \in {0, 1, 2} :
          CallGetAIMove(lt, eq, v)

SpecCalls == InitCalls /\ [][NextCalls]_vars

\* ------------------------------------------------------- main and get_ai_move
Init ==
    /\ board = create_board
    /\ version \in {1, 2}
    /\ steps = 0
    /\ call = NoCall
    /\ InitGame

\* The checks after a move without their elif check_tie(board) branch
ends_game_on_win_only(b, piece) == check_win(b, piece)

\* Lines 435-442 and 462-469: the game ends when the side that moved has four
\* in a row, or else when the top row is full
ends_game(b, piece) == check_win(b, piece) \/ check_tie(b)

\* The human's turn without the test of lines 424-425: a full column is taken
\* as a move
HumanMove_unchecked(col) ==
    /\ pc = "main" /\ ~game_over /\ turn = 0
    /\ ~(col < 0 \/ col >= COLS)
    /\ LET b == make_move(board, col, HUMAN_PIECE).ret
       IN  /\ board' = b
           /\ game_over' = (check_win(b, HUMAN_PIECE) \/ check_tie(b))
    /\ turn' = (turn + 1) % 2
    /\ UNCHANGED << version, pc, depth, best_move, run, history, steps, call >>

\* The human's turn (lines 416-442): a column in range that is_valid_move
\* accepts (any other input is asked for again), then the move and the checks
HumanMove(col) ==
    /\ pc = "main" /\ ~game_over /\ turn = 0
    /\ ~(col < 0 \/ col >= COLS)
    /\ is_valid_move(board, col) = "True"
    /\ LET b == make_move(board, col, HUMAN_PIECE).ret
       IN  /\ board' = b
           /\ game_over' = ends_game(b, HUMAN_PIECE)
    /\ turn' = (turn + 1) % 2
    /\ UNCHANGED << version, pc, depth, best_move, run, history, steps, call >>

\* The AI's turn begins: get_ai_move is entered (lines 338-343), with a clock
\* that passes the limit after lt + eq reads
AIStart(lt, eq) ==
    /\ pc = "main" /\ ~game_over /\ turn = 1
    /\ pc' = "search"
    /\ best_move' = None
    /\ depth' = 1
    /\ run' = NewRun(lt, eq)
    /\ history' = << >>
    /\ UNCHANGED << board, turn, game_over, version, steps, call >>

\* Line 354 testing "not elapsed > time_limit" instead of "elapsed < time_limit"
keeps_move_unless_over(g) == ~TimeOver(g)

\* Line 354: the iteration's move is kept if the clock read after it sees
\* elapsed < time_limit
keeps_move(g) == TimeLeft(g)

\* One pass of the loop of get_ai_move that runs a search (lines 347-357)
AIIterate ==
    /\ pc = "search"
    /\ ~TimeOver(Tick(run))
    /\ \E r \in {minimax(board, depth, 0 - INF, INF, TRUE, Tick(run), version)} :
         \E g2 \in {Tick(r.g)}, move \in MovesOf(r.move, board) :
            /\ best_move' = IF keeps_move(g2) THEN move ELSE best_move
            /\ run' = g2
            /\ history' = Append(history,
                   [depth |-> depth, move |-> move,
                    late |-> r.g.late - run.late,
                    end_read |-> g2.reads])
    /\ depth' = depth + 1
    /\ UNCHANGED << board, turn, game_over, version, pc, steps, call >>

\* The pass of the loop that finds the time is up, and breaks (lines 347-348)
AITimeUp ==
    /\ pc = "search"
    /\ TimeOver(Tick(run))
    /\ run' = Tick(run)
    /\ pc' = "return"
    /\ UNCHANGED << board, turn, game_over, version, depth, best_move, history,
                    steps, call >>

\* get_ai_move returns best_move and main uses it (lines 450-472)
AIReturn ==
    /\ pc = "return"
    /\ IF best_move = None
       THEN /\ game_over' = TRUE
            /\ board' = board
       ELSE LET b == make_move(board, best_move, AI_PIECE).ret
            IN  /\ board' = b
                /\ game_over' = ends_game(b, AI_PIECE)
    /\ turn' = (turn + 1) % 2
    /\ pc' = "main"
    /\ UNCHANGED << version, depth, best_move, run, history, steps, call >>

Next ==
    \/ \E col \in ColIdx : PieceCount(board) < MaxPieces /\ HumanMove(col)
    \/ \E lt \in 0 .. MaxReads, eq \in 0 .. MaxEq :
          PieceCount(board) < MaxPieces /\ AIStart(lt, eq)
    \/ AIIterate
    \/ AITimeUp
    \/ AIReturn

Spec == Init /\ [][Next]_vars

\* ------------------------------------------------ whole games of main
\* What the human types, turn after turn (the columns, 0-based): each plan is
\* the input of a game that fills the board but for a few cells
HumanPlans ==
    { << 1, 0, 0, 2, 1, 4, 1, 2, 4, 0, 1, 3, 3 >>,
      << 2, 2, 2, 0, 3, 1, 1, 1, 0, 0, 3, 3, 4 >>,
      << 1, 1, 1, 2, 4, 4, 1, 0, 3, 4, 0, 0, 3 >>,
      << 4, 2, 0, 0, 2, 0, 4, 4, 0, 1, 1, 1, 3 >> }

\* The clocks of a game's get_ai_move calls: the limit passes at once, within
\* the first iteration, or after MaxClock reads
GameClocks == {0, MaxTimed, MaxClock}

HumanCount(b) ==
    Cardinality({cell \in RowIdx \X ColIdx : b[cell[1]][cell[2]] = HUMAN_PIECE})

\* The columns the human may enter on this turn (line 421): the next column
\* of the plan; any column once the plan is over, or when the planned column
\* is full and the human is asked again
typed_columns ==
    LET k == HumanCount(board) + 1
    IN  IF k <= Len(call.cols) /\ is_valid_move(board, call.cols[k]) = "True"
        THEN {call.cols[k]}
        ELSE ColIdx

InitPlay ==
    /\ board = create_board
    /\ version \in {1, 2}
    /\ steps = 0
    /\ call \in {[op |-> "input", cols |-> plan] : plan \in HumanPlans}
    /\ InitGame

NextGame ==
    \/ \E col \in typed_columns : HumanMove(col)
    \/ \E lt \in GameClocks, eq \in 0 .. MaxEq : AIStart(lt, eq)
    \/ AIIterate
    \/ AITimeUp
    \/ AIReturn

SpecGame == InitPlay /\ [][NextGame]_vars

\* A pass of get_ai_move's loop that runs a search, told by what it does to
\* depth (line 357): the steps of AIIterate
iterates == pc = "search" /\ ~TimeOver(Tick(run)) /\ depth' = depth + 1

\* The human enters a playable column in the end, and get_ai_move and main go
\* on from statement to statement: no step of the loop that can be taken is
\* put off for ever
FairGame ==
    /\ SpecGame
    /\ WF_vars(\E col \in typed_columns : HumanMove(col))
    /\ WF_vars(\E lt \in GameClocks, eq \in 0 .. MaxEq : AIStart(lt, eq))
    /\ WF_depth(iterates)
    /\ WF_vars(AITimeUp)
    /\ WF_vars(AIReturn)

\* ------------------------------------------------- properties of the board
\* Cells of column col that hold a piece
Occupied(b, col) == {row \in RowIdx : b[row][col] # EMPTY}

\* The lowest empty cell of col: the empty cell with no empty cell below it
LowestEmpty(b, col) ==
    CHOOSE row \in RowIdx :
        /\ b[row][col] = EMPTY
        /\ \A below \in RowIdx : below > row => b[below][col] # EMPTY

\* piece holds four consecutive in-bounds cells of some line of the grid
Directions == { << 0, 1 >>, << 1, 0 >>, << 1, 1 >>, << -1, 1 >> }

HasLine(b, piece) ==
    \E row \in RowIdx, col \in ColIdx, d \in Directions :
        \A i \in 0 .. 3 :
            /\ row + i * d[1] \in RowIdx
            /\ col + i * d[2] \in ColIdx
            /\ b[row + i * d[1]][col + i * d[2]] = piece

HasLineIn(b, piece, d) ==
    \E row \in RowIdx, col \in ColIdx :
        \A i \in 0 .. 3 :
            /\ row + i * d[1] \in RowIdx
            /\ col + i * d[2] \in ColIdx
            /\ b[row + i * d[1]][col + i * d[2]] = piece

TopRowFull(b) == Cardinality({col \in ColIdx : b[0][col] = EMPTY}) = 0

Gravity(b) ==
    \A col \in ColIdx, row \in RowIdx :
        (b[row][col] # EMPTY /\ row + 1 \in RowIdx) => b[row + 1][col] # EMPTY

\* C3: make_move on a column whose top cell is empty returns a board that
\* differs from the input in exactly one cell, the lowest empty cell of the
\* column, which now holds the piece; the column has one more occupied cell,
\* the other columns are as they were, and the caller's board is not modified.
MakeMovePlacesOnePiece ==
    (call.op = "make_move" /\ is_valid_move(call.before, call.col) = "True") =>
        LET low == LowestEmpty(call.before, call.col)
        IN  /\ call.exc = "none"
            /\ call.ret[low][call.col] = call.piece
            /\ \A row \in RowIdx, col \in ColIdx :
                   << row, col >> # << low, call.col >> =>
                       call.ret[row][col] = call.before[row][col]
            /\ Cardinality(Occupied(call.ret, call.col))
                   = Cardinality(Occupied(call.before, call.col)) + 1
            /\ \A col \in ColIdx \ {call.col} :
                   Occupied(call.ret, col) = Occupied(call.before, col)
            /\ call.arg = call.before

\* C3 witness: a piece was dropped on top of another one
MakeMoveStacked ==
    /\ call.op = "make_move"
    /\ is_valid_move(call.before, call.col) = "True"
    /\ Cardinality(Occupied(call.before, call.col)) >= 1
    /\ call.ret # call.before

\* C4: check_win returns true exactly when the piece holds four consecutive
\* in-bounds cells of a horizontal, vertical or diagonal line; so it is false
\* for both pieces on the empty board.
CheckWinIffLine ==
    call.op = "check_win" => (call.ret <=> HasLine(board, call.piece))

\* C4 witness: check_win found a line that is an up-right diagonal only
CheckWinSawDiagonal ==
    /\ call.op = "check_win"
    /\ call.ret
    /\ HasLineIn(board, call.piece, << -1, 1 >>)
    /\ ~HasLineIn(board, call.piece, << 0, 1 >>)
    /\ ~HasLineIn(board, call.piece, << 1, 0 >>)
    /\ ~HasLineIn(board, call.piece, << 1, 1 >>)

\* C5: gravity.  No board made by make_move calls from create_board(), nor any
\* child board make_move would make of it, has an empty cell below a piece.
GravityInvariant ==
    /\ Gravity(board)
    /\ \A col \in ColIdx, piece \in Pieces : Gravity(make_move(board, col, piece).ret)

\* C5 witness: a column holds three pieces, the last one just dropped
GravityOnStack ==
    /\ call.op = "make_move"
    /\ Cardinality(Occupied(board, call.col)) >= 3
    /\ board # call.before
    /\ Cardinality({c \in ColIdx : Occupied(board, c) = {}}) >= 1

\* C8 as stated: check_tie is true exactly when the top row is full and
\* neither side has four in a row.
CheckTieMeansDraw ==
    call.op = "check_tie" =>
        (call.ret <=> (TopRowFull(board) /\ ~HasLine(board, HUMAN_PIECE)
                                         /\ ~HasLine(board, AI_PIECE)))

\* C8 amended: check_tie is true exactly when every column's top cell is
\* occupied (no column accepts a move), whether or not a side has four in a row.
CheckTieIffTopRowFull ==
    call.op = "check_tie" =>
        /\ call.ret <=> TopRowFull(board)
        /\ call.ret <=> (get_valid_moves(board) = << >>)

\* C8 witness: check_tie returned true on a full board that holds a line
CheckTieOnWonBoard ==
    /\ call.op = "check_tie"
    /\ call.ret
    /\ HasLine(board, HUMAN_PIECE) \/ HasLine(board, AI_PIECE)

\* C9 as stated: make_move on a full column signals an error.
MakeMoveOnFullColumnSignals ==
    (call.op = "make_move" /\ is_valid_move(call.before, call.col) = "False") =>
        call.exc # "none"

\* C10 as stated: is_valid_move never raises, is false for a column outside
\* [0, COLS), and inside it is true exactly when the top cell is empty.
IsValidMoveTotal ==
    call.op = "is_valid_move" =>
        /\ call.ret \in {"True", "False"}
        /\ call.col \notin ColIdx => call.ret = "False"
        /\ call.col \in ColIdx => (call.ret = "True" <=> board[0][call.col] = EMPTY)

\* ------------------------------------------------ properties of the search
\* C1: at a fixed depth and with no deadline, minimax with the full window
\* returns the same score without move ordering (version 1) and with it
\* (version 2), and that score is the one the unpruned minimax of
\* FirstVersion_connect4.py returns; no search ends with an exception.
SearchVariantsAgree ==
    call.op = "search" =>
        /\ call.v1.score = call.fv.score
        /\ call.v2.score = call.fv.score
        /\ call.v1.exc = "none" /\ call.v2.exc = "none" /\ call.fv.exc = "none"

\* C1 witness: a search two plies deep in which both versions pruned and move
\* ordering changed the nodes visited, with the score of the full search
SearchPruned ==
    /\ call.op = "search"
    /\ call.depth >= 2
    /\ call.v1.nodes < call.fv.nodes
    /\ call.v2.nodes < call.v1.nodes
    /\ call.v1.score = call.fv.score
    /\ call.v1.score \notin {INF, 0 - INF}

\* The columns whose lowest empty cell completes a horizontal line of four
\* with three human pieces in a row next to it
OpenThrees(b) ==
    {c \in ColIdx :
        /\ is_valid_move(b, c) = "True"
        /\ LET row == LowestEmpty(b, c)
           IN  \/ /\ c - 3 \in ColIdx
                  /\ \A i \in 1 .. 3 : b[row][c - i] = HUMAN_PIECE
               \/ /\ c + 3 \in ColIdx
                  /\ \A i \in 1 .. 3 : b[row][c + i] = HUMAN_PIECE}

\* C7 as stated: on a board of play that is not terminal and on which the human
\* has three in a row horizontally with an open fourth cell, a search for the
\* AI at any depth >= 1, in either version, selects the column of that cell.
SearchBlocksOpenThree ==
    (/\ call.op = "search"
     /\ call.depth >= 1
     /\ ~is_terminal_node(board)
     /\ OpenThrees(board) # {}) =>
        /\ MovesOf(call.v1.move, board) \subseteq OpenThrees(board)
        /\ MovesOf(call.v2.move, board) \subseteq OpenThrees(board)

\* ------------------------------------------- properties of get_ai_move
\* The iterations that finished before the deadline elapsed: the clock read
\* that followed them still saw elapsed < time_limit
FinishedInTime == {i \in 1 .. Len(history) : history[i].end_read <= run.lt}

Deepest(S) == CHOOSE i \in S : \A j \in S : j <= i

\* C2: get_ai_move runs minimax at depths 1, 2, 3, ... one after another on
\* one clock; an iteration in which a minimax call took the timeout branch did
\* not finish in time; and the move kept (the move returned, at the return) is
\* the root move of the deepest iteration that finished in time, None if there
\* is none: an iteration that did not finish in time leaves the kept move alone.
KeepsDeepestFinished ==
    pc \in {"search", "return"} =>
        /\ \A i \in 1 .. Len(history) : history[i].depth = i
        /\ depth = Len(history) + 1
        /\ \A i \in 1 .. Len(history) : history[i].late > 0 => i \notin FinishedInTime
        /\ \A i \in FinishedInTime : 1 .. i \subseteq FinishedInTime
        /\ best_move = IF FinishedInTime = {} THEN None
                       ELSE history[Deepest(FinishedInTime)].move

\* C2 witness: get_ai_move returns the move of depth 2 after the iteration at
\* depth 3 timed out with another move
ReturnsDepthTwoMove ==
    /\ pc = "return"
    /\ Len(history) >= 3
    /\ FinishedInTime = {1, 2}
    /\ history[3].late > 0
    /\ history[3].move # history[2].move
    /\ best_move = history[2].move
    /\ best_move # None

\* C6 as stated: once the elapsed time has passed the limit, at most one more
\* minimax node is visited before get_ai_move returns.
OverrunAtMostOneNode == run.late <= 1

\* C11: get_valid_moves returns exactly the columns of 0 .. COLS-1 that
\* is_valid_move accepts, each once, in strictly ascending order.
ValidMovesAscending ==
    call.op = "get_valid_moves" =>
        /\ {call.ret[i] : i \in 1 .. Len(call.ret)}
              = {col \in ColIdx : is_valid_move(board, col) = "True"}
        /\ \A i \in 1 .. Len(call.ret), j \in 1 .. Len(call.ret) :
              i < j => call.ret[i] < call.ret[j]

\* C11 witness: get_valid_moves on a board with full columns to the left and
\* to the right of its playable columns, which are two or more
ValidMovesSkipFullColumns ==
    /\ call.op = "get_valid_moves"
    /\ Len(call.ret) >= 2
    /\ \E a \in ColIdx, c \in ColIdx :
          /\ a < call.ret[1] /\ call.ret[Len(call.ret)] < c
          /\ board[0][a] # EMPTY /\ board[0][c] # EMPTY

\* C12 as stated: at a fixed depth and with no deadline, minimax with move
\* ordering (version 2) visits no more nodes than minimax without it
\* (version 1) on the same board.
OrderingVisitsNoMoreNodes ==
    call.op = "search" => call.v2.nodes <= call.v1.nodes

\* ------------------------------------------------- properties of single calls
ValidColumns(b) == {col \in ColIdx : is_valid_move(b, col) = "True"}

\* C13: a minimax call that passes its own timeout check with depth >= 1 on a
\* board that is not terminal finds a non-empty list of valid moves (the default
\* move is drawn without error) and returns a move that is a playable column of
\* the board, whatever its children return; and a move get_ai_move returns, if
\* not None, is a playable column of the board it was given.
MinimaxReturnsPlayableMove ==
    /\ (/\ call.op = "minimax"
         /\ call.lt # 0
         /\ call.depth >= 1
         /\ ~is_terminal_node(board)) =>
            /\ get_valid_moves(board) # << >>
            /\ call.out.exc = "none"
            /\ call.out.move # None
            /\ MovesOf(call.out.move, board) # {}
            /\ MovesOf(call.out.move, board) \subseteq ValidColumns(board)
    /\ (call.op = "get_ai_move" /\ call.move # None) =>
            /\ call.exc = "none"
            /\ MovesOf(call.move, board) # {}
            /\ MovesOf(call.move, board) \subseteq ValidColumns(board)

\* C13 witness: a maximizing call two plies deep, in time, on a board where
\* the human wins after every move of the AI: every child returned -inf, and
\* the call returned the default move
MinimaxKeepsDefaultMove ==
    /\ call.op = "minimax"
    /\ call.maximizing
    /\ call.depth >= 2
    /\ call.lt = Unlimited
    /\ ~is_terminal_node(board)
    /\ call.out.score = 0 - INF
    /\ call.out.move = RANDOM
    /\ Cardinality(MovesOf(call.out.move, board)) >= 2

\* ------------------------------------------------ properties of whole games
AICount(b) == PieceCount(b) - HumanCount(b)

\* A step of main's loop that applies a move: all but the AI's turn that ends
\* with no move
applies_move == turn' # turn /\ ~(pc = "return" /\ best_move = None)

\* C14: in main's loop, from the empty board with the human first, each move
\* is applied by the side whose turn it is, to a board that is not terminal
\* and in a column that is playable; so in every state of a game the human has
\* as many pieces as the AI or one more (one more exactly on the AI's turn),
\* at most one side has four in a row, and get_ai_move runs only on a board
\* that is not terminal.
MovesKeepGameLegal ==
    /\ [](/\ HumanCount(board) - AICount(board) \in {0, 1}
           /\ (~game_over => (HumanCount(board) - AICount(board) = turn))
           /\ ~(HasLine(board, HUMAN_PIECE) /\ HasLine(board, AI_PIECE))
           /\ (pc \in {"search", "return"} => ~is_terminal_node(board)))
    /\ [][applies_move =>
            (/\ ~is_terminal_node(board)
             /\ \E col \in ValidColumns(board) :
                   board' = make_move(board, col,
                                IF turn = 0 THEN HUMAN_PIECE ELSE AI_PIECE).ret)
         ]_vars
    /\ [][(board' # board) => applies_move]_vars

\* C14 witness: a game of ten moves or more that the human has won
HumanWonLongGame ==
    /\ game_over
    /\ pc = "main"
    /\ PieceCount(board) >= 10
    /\ HasLine(board, HUMAN_PIECE)
    /\ ~HasLine(board, AI_PIECE)

\* Why the loop may have ended, seen after a turn (turn has changed hands):
\* the side that just moved has four in a row, the top row is full, or the AI
\* returned no move
just_moved == IF turn = 1 THEN HUMAN_PIECE ELSE AI_PIECE

ai_returned_none == turn = 0 /\ PieceCount(board) > 0 /\ best_move = None

\* C15: if the human enters a playable column in the end on each turn and
\* every get_ai_move call returns, main's loop ends: game_over is set in the
\* end, while it is not set fewer than ROWS x COLS pieces are on the board, and
\* it is set exactly when the side that just moved has four in a row, the top
\* row is full, or the AI returned no move.
GameEnds ==
    /\ <>game_over
    /\ [](~game_over => (PieceCount(board) < ROWS * COLS))
    /\ [](pc # "main" => ~game_over)
    /\ []((pc = "main" /\ PieceCount(board) > 0) =>
            (game_over <=> (\/ HasLine(board, just_moved)
                            \/ TopRowFull(board)
                            \/ ai_returned_none)))

\* C15 witness: a game that ended with the board full and no four in a row
GameEndedInDraw ==
    /\ game_over
    /\ PieceCount(board) = ROWS * COLS
    /\ ~HasLine(board, HUMAN_PIECE)
    /\ ~HasLine(board, AI_PIECE)

====
